---- MODULE Spec2Model ----
(***************************************************************************)
(* Instance synthesis of the Active Appearance Model container of          *)
(* menpofit/aam/base.py: AAM.instance, AAM.random_instance, AAM._instance, *)
(* AAM._build_reference_frame and the PatchBasedAAM override.              *)
(*                                                                         *)
(* Numbers.  Weights and eigenvalues are floats in the program.  Here the  *)
(* eigenvalues are perfect squares and the weights integers, so that       *)
(* `** 0.5` and the element-wise products are computed exactly.            *)
(*                                                                         *)
(* Objects.  The caller owns two weight objects that outlive a call: o1, a *)
(* float ndarray, and o2, a plain Python list.  `heap` holds their current *)
(* contents; an argument is None or the identity of one of them, so the    *)
(* same object can be handed to two parameters or to two calls.            *)
(***************************************************************************)
EXTENDS Integers, Sequences, FiniteSets, TLC

MaxLevels == 2      \* pyramid levels of a model: 1..MaxLevels
MaxComp == 2        \* active components of a PCA model: 1..MaxComp
MaxLen == 3         \* length of a caller-owned weight vector: 0..MaxLen
MaxVal == 16        \* in-place scaling is followed while entries stay <= MaxVal

VARIABLES
    aam,        \* the model container (self)
    aam0,       \* the container as __init__ left it
    heap,       \* caller-owned weight objects: identity -> [kind, data]
    last,       \* what the most recent call did (its arguments, what it
                \* handed to the collaborators, how it ended)
    threads     \* the calls in progress when calls are interleaved

vars == <<aam, aam0, heap, last, threads>>

None == "None"
Objs == {"o1", "o2"}
NoAttr == "no such attribute"

Min(a, b) == IF a <= b THEN a ELSE b

\* F applied to the value of x: Python evaluates an expression once and
\* binds the result, it does not evaluate it again at each use
Once(x, F(_)) == CHOOSE y \in { F(v) : v \in {x} } : TRUE

(***************************************************************************)
(* numpy on one-dimensional arrays                                         *)
(***************************************************************************)

\* x ** 0.5 for one number: the least r with r * r >= x, which is the
\* root exactly when x is a perfect square, as the eigenvalues here are
RECURSIVE SqrtFrom(_, _)
SqrtFrom(x, r) == IF r * r >= x THEN r ELSE SqrtFrom(x, r + 1)
Sqrt(x) == SqrtFrom(x, 0)

\* a ** 0.5, element-wise
ArraySqrt(a) == [i \in 1..Len(a) |-> Sqrt(a[i])]

\* a[:n] for n >= 0: at most the first n entries, never an error
SliceTo(a, n) == SubSeq(a, 1, Min(n, Len(a)))

\* the shapes (la,) and (lb,) broadcast together
Broadcastable(la, lb) == la = lb \/ la = 1 \/ lb = 1

\* the broadcast shape of (la,) and (lb,)
BroadcastLen(la, lb) == IF la = 1 THEN lb ELSE la

\* a * b, element-wise with broadcasting, as a new array
Multiply(a, b) ==
    [i \in 1..BroadcastLen(Len(a), Len(b)) |->
        (IF Len(a) = 1 THEN a[1] ELSE a[i]) * (IF Len(b) = 1 THEN b[1] ELSE b[i])]

(***************************************************************************)
(* Python values                                                           *)
(***************************************************************************)

\* list[i] is defined: -len <= i < len
ValidIndex(list, i) == -Len(list) <= i /\ i < Len(list)

\* list[i] with a negative i counted from the start: -1 the first entry
GetItem_FromStart(list, i) == IF i >= 0 THEN list[i + 1] ELSE list[0 - i]

\* list[i], a negative i counting from the end (the sequences here are
\* 1-based, Python's lists 0-based)
GetItem(list, i) == IF i >= 0 THEN list[i + 1] ELSE list[Len(list) + i + 1]

\* a local variable bound to the caller's object `arg`
Bind(arg) == [ref |-> arg, kind |-> "", data |-> <<>>]

\* a local variable bound to a new object that no one else holds
Fresh(kind, data) == [ref |-> "tmp", kind |-> kind, data |-> data]

\* the object a local variable is bound to, as it is now
Deref(v, h) ==
    IF v.ref \in Objs THEN h[v.ref] ELSE [kind |-> v.kind, data |-> v.data]

\* `if weights is None: weights = [1]`
DefaultWeights_One(arg) == IF arg = None THEN Fresh("list", <<1>>) ELSE Bind(arg)

\* `if weights is None: weights = [0]`
DefaultWeights(arg) == IF arg = None THEN Fresh("list", <<0>>) ELSE Bind(arg)

\* the in-place ufunc ndarray.__imul__: the output is the left operand, so
\* the broadcast shape has to be the left operand's own shape
InplaceShapeOk(lw, lf) == lf = lw \/ lf = 1

\* the store of ndarray.__imul__: the object v is bound to holds `data`
StoreInplace(v, data, h) ==
    IF v.ref \in Objs THEN [h EXCEPT ![v.ref].data = data] ELSE h

\* `v = v[:len(f)] * f`: the weights cut to the factor, never an error
InplaceMultiply_Truncating(v, f, h) ==
    [raised |-> FALSE,
     v |-> Fresh("ndarray", Multiply(SliceTo(Deref(v, h).data, Len(f)), f)),
     heap |-> h]

\* The statement `v *= f`, f an ndarray.  A list has no number protocol, so
\* the statement evaluates ndarray.__rmul__(f, v): a new array, to which v
\* is rebound, and the list is left as it was.  An ndarray is multiplied in
\* place: the object itself is written.  Both raise ValueError when the
\* shapes do not fit.
InplaceMultiply(v, f, h) ==
    LET cur == Deref(v, h) IN
    IF cur.kind = "list"
    THEN IF Broadcastable(Len(cur.data), Len(f))
         THEN [raised |-> FALSE, v |-> Fresh("ndarray", Multiply(cur.data, f)),
               heap |-> h]
         ELSE [raised |-> TRUE, v |-> v, heap |-> h]
    ELSE IF InplaceShapeOk(Len(cur.data), Len(f))
         THEN [raised |-> FALSE,
               v |-> IF v.ref \in Objs THEN v
                     ELSE [v EXCEPT !.data = Multiply(cur.data, f)],
               heap |-> StoreInplace(v, Multiply(cur.data, f), h)]
         ELSE [raised |-> TRUE, v |-> v, heap |-> h]

(***************************************************************************)
(* Collaborators: the PCA models (menpo), the reference frame builders     *)
(* (menpofit.aam.builder), the transform and the image warp (menpo).  They *)
(* are kept symbolic: a result records which operation made it from what.  *)
(***************************************************************************)

\* the spectrum a PCA model of level l was fitted with, largest first
ShapeSpectrum(l) == [i \in 1..MaxComp |-> (MaxComp + l + 1 - i) * (MaxComp + l + 1 - i)]
AppearanceSpectrum(l) == [i \in 1..MaxComp |-> (2 * (MaxComp + 1 - i) + l) * (2 * (MaxComp + 1 - i) + l)]

PointTypes == {"PointCloud", "TriMesh"}

\* the triangulation of the points of `owner` at level l; None, as passed
\* for trilist=None; and the trilist a PointCloud does not have
Trilist(owner, l) == [of |-> owner, level |-> l]
NoneTrilist == [of |-> None, level |-> 0]
NoTrilist == [of |-> NoAttr, level |-> 0]

\* the points of `owner` at level l, of the given type; only a TriMesh has
\* a trilist
PointSet(type, owner, l) ==
    [type |-> type, of |-> owner, level |-> l,
     trilist |-> IF type = "TriMesh" THEN Trilist(owner, l) ELSE NoTrilist]

\* the shape model of level l with n active components, its mean of `type`
ShapeModel(l, n, type) ==
    [kind |-> "shape", level |-> l, n_active_components |-> n,
     eigenvalues |-> SubSeq(ShapeSpectrum(l), 1, n),
     points |-> PointSet(type, "shape", l)]

\* the appearance model of level l with n active components, the 'source'
\* landmarks of its mean image of `type`
AppearanceModel(l, n, type) ==
    [kind |-> "appearance", level |-> l, n_active_components |-> n,
     eigenvalues |-> SubSeq(AppearanceSpectrum(l), 1, n),
     points |-> PointSet(type, "template landmarks", l)]

\* model.instance(weights) accepts at most n_active_components weights
PCAAccepts(m, weights) == Len(weights) <= m.n_active_components

\* model.instance(weights): the mean plus the weighted components, the
\* missing weights being zero
PCAInstance(m, weights) ==
    [kind |-> m.kind, level |-> m.level, points |-> m.points,
     weights |-> [i \in 1..m.n_active_components |->
                     IF i <= Len(weights) THEN weights[i] ELSE 0]]

\* model.mean()
PCAMean(m) == PCAInstance(m, <<>>)

\* image.landmarks['source'].lms, shape or image
SourceLandmarks(x) == x.points

build_reference_frame(shape, trilist) ==
    [builder |-> "build_reference_frame", shape |-> shape,
     trilist |-> trilist, patch_shape |-> NoAttr]

build_patch_reference_frame(shape, patch_shape) ==
    [builder |-> "build_patch_reference_frame", shape |-> shape,
     trilist |-> NoTrilist, patch_shape |-> patch_shape]

\* reference_frame.landmarks['source'].lms and reference_frame.mask
FrameLandmarks(frame) == [of |-> "landmarks", frame |-> frame]
FrameMask(frame) == [of |-> "mask", frame |-> frame]

\* image.as_unmasked(copy=False).warp_to_mask(mask, transform, warp_landmarks)
WarpToMask(image, mask, transform, warp_landmarks) ==
    [image |-> image, unmasked |-> TRUE, mask |-> mask,
     transform |-> transform, warp_landmarks |-> warp_landmarks]

(***************************************************************************)
(* AAM and PatchBasedAAM                                                   *)
(***************************************************************************)

Variants == {"AAM", "PatchBasedAAM"}

\* AAM.__init__ and PatchBasedAAM.__init__: the attributes of the container
NewAAM(variant, shape_models, appearance_models) ==
    [variant |-> variant,
     n_training_images |-> "n_training_images",
     shape_models |-> shape_models,
     appearance_models |-> appearance_models,
     transform |-> "PiecewiseAffine",
     features |-> "features",
     reference_shape |-> "reference_shape",
     downscale |-> "downscale",
     scaled_shape_models |-> "scaled_shape_models",
     patch_shape |-> IF variant = "PatchBasedAAM" THEN "(h, w)" ELSE NoAttr]

\* AAM.n_levels
n_levels(self) == Len(self.appearance_models)

\* _build_reference_frame taking the triangulation of the shape it is
\* handed instead of the one of `landmarks`
AAM_build_reference_frame_OfShape(self, reference_shape, landmarks) ==
    build_reference_frame(reference_shape,
        IF reference_shape.points.type = "TriMesh"
        THEN reference_shape.points.trilist ELSE NoneTrilist)

\* AAM._build_reference_frame: the triangulation is the one of `landmarks`,
\* and only when they are exactly a TriMesh
AAM_build_reference_frame(self, reference_shape, landmarks) ==
    build_reference_frame(reference_shape,
        IF landmarks.type = "TriMesh" THEN landmarks.trilist ELSE NoneTrilist)

\* a patch override that only covers landmarks without a triangulation
PatchBasedAAM_build_reference_frame_Mesh(self, reference_shape, landmarks) ==
    IF landmarks.type = "TriMesh"
    THEN build_reference_frame(reference_shape, landmarks.trilist)
    ELSE build_patch_reference_frame(reference_shape, self.patch_shape)

\* PatchBasedAAM._build_reference_frame
PatchBasedAAM_build_reference_frame(self, reference_shape, landmarks) ==
    build_patch_reference_frame(reference_shape, self.patch_shape)

\* self._build_reference_frame(...): the method of the object's class
_build_reference_frame(self, reference_shape, landmarks) ==
    IF self.variant = "PatchBasedAAM"
    THEN PatchBasedAAM_build_reference_frame(self, reference_shape, landmarks)
    ELSE AAM_build_reference_frame(self, reference_shape, landmarks)

\* self.transform(a, b): the configured class, called with two positional
\* arguments
Transform(self, first, second) ==
    [class |-> self.transform, first |-> first, second |-> second]

\* a call of a collaborator, as _instance makes it
Call(fn, args) == [fn |-> fn, args |-> args]

\* the image warp_to_mask returned, with the collaborator calls that led to
\* it, in program order
Traced(warped, calls) ==
    [image |-> warped.image, unmasked |-> warped.unmasked, mask |-> warped.mask,
     transform |-> warped.transform, warp_landmarks |-> warped.warp_landmarks,
     calls |-> calls]

\* _instance calling self.transform(landmarks, frame landmarks): the
\* template landmarks first
_instance_TemplateFirst(self, level, shape_instance, appearance_instance) ==
    LET template == PCAMean(GetItem(self.appearance_models, level))
        landmarks == SourceLandmarks(template)
        reference_frame == _build_reference_frame(self, shape_instance, landmarks)
        transform == Transform(self, landmarks, FrameLandmarks(reference_frame))
    IN  Traced(WarpToMask(appearance_instance, FrameMask(reference_frame),
                          transform, TRUE),
               << Call("mean", <<>>),
                  Call("_build_reference_frame", <<shape_instance, landmarks>>),
                  Call("transform", <<landmarks, FrameLandmarks(reference_frame)>>),
                  Call("as_unmasked", <<FALSE>>),
                  Call("warp_to_mask", <<FrameMask(reference_frame), transform, TRUE>>) >>)

\* AAM._instance
_instance(self, level, shape_instance, appearance_instance) ==
    LET template == PCAMean(GetItem(self.appearance_models, level))
        landmarks == SourceLandmarks(template)
        reference_frame == _build_reference_frame(self, shape_instance, landmarks)
        transform == Transform(self, FrameLandmarks(reference_frame), landmarks)
    IN  Traced(WarpToMask(appearance_instance, FrameMask(reference_frame),
                          transform, TRUE),
               << Call("mean", <<>>),
                  Call("_build_reference_frame", <<shape_instance, landmarks>>),
                  Call("transform", <<FrameLandmarks(reference_frame), landmarks>>),
                  Call("as_unmasked", <<FALSE>>),
                  Call("warp_to_mask", <<FrameMask(reference_frame), transform, TRUE>>) >>)

\* a call that takes the model of the level off the list: list.pop()
SelfAfterCall_Pop(self) ==
    [self EXCEPT !.appearance_models = SubSeq(@, 1, Len(@) - 1)]

\* the container after a call: no statement of instance, random_instance,
\* _instance or _build_reference_frame assigns to an attribute of self
SelfAfterCall(self) == self

\* How a call ended and what it handed on.  `stage` is "returned" or the
\* statement that raised; a field past the stage holds its initial value.
Outcome(stage, h, sw, aw, res) ==
    [stage |-> stage, heap |-> h, shape_weights |-> sw,
     appearance_weights |-> aw, result |-> res]

NoWeights == <<>>
NoResult == [image |-> NoAttr]

\* the factor without the square root: eigenvalues[:n]
ScaleFactor_NoSqrt(model, n) == SliceTo(model.eigenvalues, n)

\* the factor of line 119 / 122: eigenvalues[:n] ** 0.5
ScaleFactor(model, n) == ArraySqrt(SliceTo(model.eigenvalues, n))

\* lines 123-125: am.instance(appearance_weights), then self._instance
instance_return(self, sm, am, level, sw, aw, h) ==
    IF ~PCAAccepts(am, aw)
    THEN Outcome("am.instance", h, sw, aw, NoResult)
    ELSE Outcome("returned", h, sw, aw,
                 _instance(self, level, PCAInstance(sm, sw), PCAInstance(am, aw)))

\* line 122 has run with the effect amul
instance_appearance_scaled(self, sm, am, level, sw, amul, h) ==
    IF amul.raised
    THEN Outcome("appearance_weights *=", h, sw, NoWeights, NoResult)
    ELSE instance_return(self, sm, am, level, sw,
                         Deref(amul.v, amul.heap).data, amul.heap)

\* lines 120-122: sm.instance(shape_weights), then the appearance weights
\* are measured and scaled
instance_appearance_weights(self, sm, am, level, sw, aw0, h) ==
    IF ~PCAAccepts(sm, sw)
    THEN Outcome("sm.instance", h, sw, NoWeights, NoResult)
    ELSE Once(InplaceMultiply(aw0, ScaleFactor(am, Len(Deref(aw0, h).data)), h),
              LAMBDA amul :
                  instance_appearance_scaled(self, sm, am, level, sw, amul, h))

\* line 119 has run with the effect smul
instance_shape_scaled(self, sm, am, level, smul, aw0, h) ==
    IF smul.raised
    THEN Outcome("shape_weights *=", h, NoWeights, NoWeights, NoResult)
    ELSE instance_appearance_weights(self, sm, am, level,
             Deref(smul.v, smul.heap).data, aw0, smul.heap)

\* lines 118-119: the shape weights are measured and scaled
instance_shape_weights(self, sm, am, level, sw0, aw0, h) ==
    Once(InplaceMultiply(sw0, ScaleFactor(sm, Len(Deref(sw0, h).data)), h),
         LAMBDA smul : instance_shape_scaled(self, sm, am, level, smul, aw0, h))

\* AAM.instance(shape_weights, appearance_weights, level) run from heap h
instance(self, h, shape_weights, appearance_weights, level) ==
    IF ~ValidIndex(self.shape_models, level)
    THEN Outcome("shape_models[level]", h, NoWeights, NoWeights, NoResult)
    ELSE IF ~ValidIndex(self.appearance_models, level)
    THEN Outcome("appearance_models[level]", h, NoWeights, NoWeights, NoResult)
    ELSE instance_shape_weights(self, GetItem(self.shape_models, level),
             GetItem(self.appearance_models, level), level,
             DefaultWeights(shape_weights), DefaultWeights(appearance_weights), h)

\* lines 148-152: the appearance weights have been drawn and scaled
random_instance_return(self, sm, am, level, sw, aw, h) ==
    instance_return(self, sm, am, level, sw, aw, h)

\* lines 147-149: sm.instance(shape_weights), then the appearance draw
random_instance_appearance_weights(self, sm, am, level, sw, appearance_draw, h) ==
    IF ~PCAAccepts(sm, sw)
    THEN Outcome("sm.instance", h, sw, NoWeights, NoResult)
    ELSE IF ~Broadcastable(Len(appearance_draw), Min(am.n_active_components, Len(am.eigenvalues)))
    THEN Outcome("randn(am) *", h, sw, NoWeights, NoResult)
    ELSE Once(Multiply(appearance_draw, ScaleFactor(am, am.n_active_components)),
              LAMBDA aw : random_instance_return(self, sm, am, level, sw, aw, h))

\* lines 145-146: the shape draw is scaled
random_instance_models(self, sm, am, level, shape_draw, appearance_draw, h) ==
    IF ~Broadcastable(Len(shape_draw), Min(sm.n_active_components, Len(sm.eigenvalues)))
    THEN Outcome("randn(sm) *", h, NoWeights, NoWeights, NoResult)
    ELSE Once(Multiply(shape_draw, ScaleFactor(sm, sm.n_active_components)),
              LAMBDA sw : random_instance_appearance_weights(
                              self, sm, am, level, sw, appearance_draw, h))

\* AAM.random_instance(level), np.random.randn returning shape_draw for the
\* shape model and appearance_draw for the appearance model
random_instance(self, h, shape_draw, appearance_draw, level) ==
    IF ~ValidIndex(self.shape_models, level)
    THEN Outcome("shape_models[level]", h, NoWeights, NoWeights, NoResult)
    ELSE IF ~ValidIndex(self.appearance_models, level)
    THEN Outcome("appearance_models[level]", h, NoWeights, NoWeights, NoResult)
    ELSE random_instance_models(self, GetItem(self.shape_models, level),
             GetItem(self.appearance_models, level), level,
             shape_draw, appearance_draw, h)

(***************************************************************************)
(* The state machine: a constructed model and a caller that keeps calling  *)
(***************************************************************************)

\* the levels a caller passes: the valid ones, both signs, and one beyond
\* at each end
LevelArgs(self) == (0 - Len(self.shape_models) - 1)..Len(self.shape_models)

\* what a caller passes for a weight parameter
WeightArgs == {None} \cup Objs

\* the values np.random.randn returns, in units of one standard deviation
DrawVals == {-1, 1}
Draws(n) == [1..n -> DrawVals]

\* the contents of a weight vector of length n before any call
InitialWeights(n) == [i \in 1..n |-> 2 - (i % 2)]

\* the component counts of the synthetic pyramid: the shape models gain
\* components with the level, the appearance models lose them
ShapeComponents(l) == Min(l, MaxComp)
AppearanceComponents(l) == MaxComp + 1 - Min(l, MaxComp)

\* the models a constructor is handed: either class, 1..MaxLevels levels,
\* mean shapes and template landmarks with or without a triangulation
Models ==
    { NewAAM(variant,
             [l \in 1..n |-> ShapeModel(l, ShapeComponents(l), stype)],
             [l \in 1..n |-> AppearanceModel(l, AppearanceComponents(l), ltype)]) :
        <<variant, n, stype, ltype>> \in
            Variants \X (1..MaxLevels) \X PointTypes \X PointTypes }

\* the caller's two objects: an ndarray and a list of the same numbers
Heaps ==
    { [o \in Objs |-> [kind |-> IF o = "o1" THEN "ndarray" ELSE "list",
                       data |-> InitialWeights(n)]] : n \in 0..MaxLen }

NoCall ==
    [op |-> "none", level |-> 0, shape_weights |-> None,
     appearance_weights |-> None, shape_draw |-> <<>>,
     appearance_draw |-> <<>>, heap0 |-> [o \in Objs |-> [kind |-> "", data |-> <<>>]],
     out |-> Outcome("none", [o \in Objs |-> [kind |-> "", data |-> <<>>]],
                     NoWeights, NoWeights, NoResult)]

Init ==
    /\ aam \in Models
    /\ aam0 = aam
    /\ heap \in Heaps
    /\ last = NoCall
    /\ threads = <<>>

\* every entry of every caller-owned vector is within the bound followed
Bounded(h) == \A o \in Objs : \A i \in 1..Len(h[o].data) : h[o].data[i] <= MaxVal

\* a call of `op` with these arguments and draws ended as `out`
Called(op, level, sw, aw, sd, ad, out) ==
    /\ Bounded(out.heap)
    /\ heap' = out.heap
    /\ aam' = SelfAfterCall(aam)
    /\ last' = [op |-> op, level |-> level, shape_weights |-> sw,
                appearance_weights |-> aw, shape_draw |-> sd,
                appearance_draw |-> ad, heap0 |-> heap, out |-> out]
    /\ UNCHANGED <<aam0, threads>>

\* the caller calls aam.instance(shape_weights, appearance_weights, level)
CallInstance ==
    \E sw \in WeightArgs, aw \in WeightArgs, level \in LevelArgs(aam) :
        \E out \in {instance(aam, heap, sw, aw, level)} :
            Called("instance", level, sw, aw, <<>>, <<>>, out)

\* the number of values random_instance draws for the models `list`
DrawCount(list, level) ==
    IF ValidIndex(list, level) THEN GetItem(list, level).n_active_components ELSE 0

\* the caller calls aam.random_instance(level)
CallRandomInstance ==
    \E level \in LevelArgs(aam) :
        \E sd \in Draws(DrawCount(aam.shape_models, level)),
           ad \in Draws(DrawCount(aam.appearance_models, level)) :
            \E out \in {random_instance(aam, heap, sd, ad, level)} :
                Called("random_instance", level, None, None, sd, ad, out)

Next == CallInstance \/ CallRandomInstance

Spec == Init /\ [][Next]_vars

(***************************************************************************)
(* Properties of the calls.  They are stated about `last`, the record of   *)
(* the most recent call: its arguments, the contents of the caller's       *)
(* objects when it began (heap0), and what it handed on and returned (out).*)
(***************************************************************************)

\* the most recent call selected a level that exists
LastValid ==
    /\ last.op # "none"
    /\ ValidIndex(aam.shape_models, last.level)
    /\ ValidIndex(aam.appearance_models, last.level)

\* the models the most recent call selected
LastSM == GetItem(aam.shape_models, last.level)
LastAM == GetItem(aam.appearance_models, last.level)

\* the contents of the object passed for a weight parameter, at call time
Supplied(arg) == last.heap0[arg].data

\* the call got as far as sm.instance / am.instance
ShapePassed(out) ==
    out.stage \in {"sm.instance", "appearance_weights *=", "am.instance", "returned"}
ShapeDone(out) == out.stage \in {"appearance_weights *=", "am.instance", "returned"}
AppearancePassed(out) == out.stage \in {"am.instance", "returned"}

\* p[i] = w[i] * sqrt(ev[i]) for every i of w, said without a square root
IsScaled(p, w, ev) ==
    /\ Len(p) = Len(w)
    /\ Len(w) <= Len(ev)
    /\ \A i \in 1..Len(w) : p[i] * p[i] = w[i] * w[i] * ev[i] /\ p[i] * w[i] >= 0

AllZero(p) == \A i \in 1..Len(p) : p[i] = 0

\* C1: for every level and every supplied vector w of length k <= the
\* number of eigenvalues, instance hands the shape model w[i] *
\* sqrt(eigenvalues[i]) of the shape model, and the appearance model the
\* appearance vector scaled by the appearance model's; once per call.
C1_SuppliedVectorsScaledOnce ==
    (last.op = "instance" /\ LastValid) =>
        /\ (last.shape_weights # None
            /\ Len(Supplied(last.shape_weights)) <= Len(LastSM.eigenvalues))
           => /\ ShapePassed(last.out)
              /\ IsScaled(last.out.shape_weights, Supplied(last.shape_weights),
                          LastSM.eigenvalues)
        /\ (last.appearance_weights # None /\ ShapeDone(last.out)
            /\ Len(Supplied(last.appearance_weights)) <= Len(LastAM.eigenvalues))
           => /\ AppearancePassed(last.out)
              /\ IsScaled(last.out.appearance_weights,
                          Supplied(last.appearance_weights), LastAM.eigenvalues)

\* the one ndarray was passed for both weight parameters
SameArrayTwice ==
    /\ last.shape_weights # None
    /\ last.shape_weights = last.appearance_weights
    /\ last.heap0[last.shape_weights].kind = "ndarray"

\* C1 holds of every call but the ones that pass one ndarray for both
\* parameters (not a claim: it locates the failure of C1)
ScaledOnceUnlessSameArrayTwice == SameArrayTwice \/ C1_SuppliedVectorsScaledOnce

\* both weight arguments omitted, or both of length zero
BothOmittedOrEmpty ==
    \/ last.shape_weights = None /\ last.appearance_weights = None
    \/ /\ last.shape_weights # None /\ last.appearance_weights # None
       /\ Len(Supplied(last.shape_weights)) = 0
       /\ Len(Supplied(last.appearance_weights)) = 0

\* C2: at every level, instance with both weight vectors omitted or both
\* of length zero hands all-zero vectors to the two models and returns the
\* synthesis of the mean shape and the mean appearance of that level.
C2_OmittedIsMean ==
    (last.op = "instance" /\ LastValid /\ BothOmittedOrEmpty) =>
        /\ last.out.stage = "returned"
        /\ AllZero(last.out.shape_weights)
        /\ AllZero(last.out.appearance_weights)
        /\ last.out.result =
               _instance(aam, last.level, PCAMean(LastSM), PCAMean(LastAM))

C2_Witness ==
    /\ last.op = "instance" /\ LastValid
    /\ last.shape_weights = None /\ last.appearance_weights = None
    /\ last.out.stage = "returned"
    /\ Len(last.out.shape_weights) = 1

\* a supplied vector is longer than the model has eigenvalues
ShapeTooLong ==
    /\ last.shape_weights # None
    /\ Len(Supplied(last.shape_weights)) > Len(LastSM.eigenvalues)
AppearanceTooLong ==
    /\ last.appearance_weights # None
    /\ Len(Supplied(last.appearance_weights)) > Len(LastAM.eigenvalues)

\* C3 as claimed: a vector longer than the model has eigenvalues never
\* makes instance raise; it is cut to the available components and the
\* synthesis is done from the cut vector.
C3_TruncatesNeverRaises ==
    (last.op = "instance" /\ LastValid) =>
        /\ ShapeTooLong =>
              /\ ShapePassed(last.out)
              /\ IsScaled(last.out.shape_weights,
                          SliceTo(Supplied(last.shape_weights), Len(LastSM.eigenvalues)),
                          LastSM.eigenvalues)
        /\ (ShapeTooLong \/ AppearanceTooLong) => last.out.stage = "returned"

\* C3: a vector longer than the model has eigenvalues is never cut.  With
\* more than one eigenvalue the scaling statement raises (the shapes do not
\* broadcast) and the caller's objects are as before the statement; with
\* exactly one, its square root multiplies all k entries and the model is
\* handed the vector of length k.
C3_LongVectorNotTruncated ==
    (last.op = "instance" /\ LastValid) =>
        /\ ShapeTooLong =>
              IF Len(LastSM.eigenvalues) = 1
              THEN /\ ShapePassed(last.out)
                   /\ Len(last.out.shape_weights) = Len(Supplied(last.shape_weights))
                   /\ \A i \in 1..Len(last.out.shape_weights) :
                          last.out.shape_weights[i] * last.out.shape_weights[i] =
                              Supplied(last.shape_weights)[i]
                              * Supplied(last.shape_weights)[i]
                              * LastSM.eigenvalues[1]
              ELSE /\ last.out.stage = "shape_weights *="
                   /\ last.out.heap = last.heap0
        /\ (AppearanceTooLong /\ ShapeDone(last.out)) =>
              IF Len(LastAM.eigenvalues) = 1
              THEN /\ AppearancePassed(last.out)
                   /\ Len(last.out.appearance_weights) =
                          Len(Supplied(last.appearance_weights))
              ELSE last.out.stage = "appearance_weights *="

C3_Witness ==
    /\ last.op = "instance" /\ LastValid
    /\ ShapeTooLong
    /\ Len(LastSM.eigenvalues) > 1
    /\ last.out.stage = "shape_weights *="

\* C4: two calls of instance in succession with the very same argument
\* objects return equal results.
C4_SameArgumentsSameResult ==
    [][(/\ last.op = "instance" /\ last'.op = "instance"
        /\ last'.level = last.level
        /\ last'.shape_weights = last.shape_weights
        /\ last'.appearance_weights = last.appearance_weights
        /\ last.out.stage = "returned" /\ last'.out.stage = "returned")
       => last'.out.result = last.out.result]_vars

\* C5: a negative level counts from the end: with n_levels entries in both
\* lists, level = -j and level = n_levels - j select the same pair of
\* models (for -1 the last of each list, its mean the template) and give
\* the same result for the same weights, 1 <= j <= n_levels.
C5_NegativeLevelFromEnd ==
    (/\ last.op = "instance"
     /\ last.level < 0 /\ 0 - last.level <= n_levels(aam)
     /\ Len(aam.shape_models) = n_levels(aam)) =>
        /\ last.out = instance(aam, last.heap0, last.shape_weights,
                               last.appearance_weights, n_levels(aam) + last.level)
        /\ last.out.stage = "returned" =>
              /\ last.out.result.mask.frame.shape.level =
                     aam.shape_models[n_levels(aam) + last.level + 1].level
              /\ last.out.result.image.level =
                     aam.appearance_models[n_levels(aam) + last.level + 1].level
              /\ last.out.result.transform.second = SourceLandmarks(
                     PCAMean(aam.appearance_models[n_levels(aam) + last.level + 1]))

C5_Witness ==
    /\ last.op = "instance"
    /\ n_levels(aam) > 1
    /\ last.level = -1
    /\ last.out.stage = "returned"
    /\ last.out.result.image.level = n_levels(aam)

C7_RandomInstance ==
    (last.op = "random_instance" /\ LastValid) =>
        /\ last.out.stage = "returned"
        /\ Len(last.out.shape_weights) = LastSM.n_active_components
        /\ IsScaled(last.out.shape_weights, last.shape_draw, LastSM.eigenvalues)
        /\ Len(last.out.appearance_weights) = LastAM.n_active_components
        /\ IsScaled(last.out.appearance_weights, last.appearance_draw,
                    LastAM.eigenvalues)
        /\ last.out.result =
               _instance(aam, last.level,
                         PCAInstance(LastSM, last.out.shape_weights),
                         PCAInstance(LastAM, last.out.appearance_weights))
        /\ last.out.result.mask = FrameMask(
               _build_reference_frame(aam,
                   PCAInstance(LastSM, last.out.shape_weights),
                   SourceLandmarks(PCAMean(LastAM))))

C7_Witness ==
    /\ last.op = "random_instance" /\ LastValid
    /\ last.out.stage = "returned"
    /\ Len(last.shape_draw) > 1
    /\ last.shape_draw[1] # last.shape_draw[2]

\* the same call on the same model as a plain AAM
AsBase(self) == [self EXCEPT !.variant = "AAM"]
LastOnBase ==
    IF last.op = "instance"
    THEN instance(AsBase(aam), last.heap0, last.shape_weights,
                  last.appearance_weights, last.level)
    ELSE random_instance(AsBase(aam), last.heap0, last.shape_draw,
                         last.appearance_draw, last.level)

\* C9: for the same models, transform, level and weights PatchBasedAAM
\* hands the same scaled vectors to the models, uses the same template
\* landmarks and builds the transform and the warp_to_mask call as AAM
\* does; its reference frame is build_patch_reference_frame of the shape
\* instance and patch_shape, triangulation or not.
C9_PatchChangesOnlyFrame ==
    (aam.variant = "PatchBasedAAM" /\ last.op # "none") =>
        /\ last.out.stage = LastOnBase.stage
        /\ last.out.heap = LastOnBase.heap
        /\ last.out.shape_weights = LastOnBase.shape_weights
        /\ last.out.appearance_weights = LastOnBase.appearance_weights
        /\ last.out.stage = "returned" =>
              /\ last.out.result.image = LastOnBase.result.image
              /\ last.out.result.unmasked = LastOnBase.result.unmasked
              /\ last.out.result.warp_landmarks = LastOnBase.result.warp_landmarks
              /\ last.out.result.transform.class = LastOnBase.result.transform.class
              /\ last.out.result.transform.second =
                     LastOnBase.result.transform.second
              /\ last.out.result.transform.first =
                     FrameLandmarks(last.out.result.mask.frame)
              /\ LastOnBase.result.transform.first =
                     FrameLandmarks(LastOnBase.result.mask.frame)
              /\ last.out.result.mask.of = LastOnBase.result.mask.of
              /\ last.out.result.mask.frame =
                     build_patch_reference_frame(
                         PCAInstance(LastSM, last.out.shape_weights),
                         aam.patch_shape)

C9_Witness ==
    /\ aam.variant = "PatchBasedAAM"
    /\ last.op = "instance"
    /\ last.out.stage = "returned"
    /\ LastAM.points.type = "TriMesh"
    /\ last.out.result.mask.frame.builder = "build_patch_reference_frame"

\* C10 as claimed: the dense reference frame is built from the shape
\* instance with the shape instance's own triangulation when the shape
\* instance is a triangulated mesh, and with trilist = None when it is not.
C10_TrilistOfShapeInstance ==
    (aam.variant = "AAM" /\ last.op # "none" /\ last.out.stage = "returned") =>
        /\ last.out.result.mask.frame.builder = "build_reference_frame"
        /\ last.out.result.mask.frame.shape =
               PCAInstance(LastSM, last.out.shape_weights)
        /\ last.out.result.mask.frame.trilist =
               IF last.out.result.mask.frame.shape.points.type = "TriMesh"
               THEN last.out.result.mask.frame.shape.points.trilist
               ELSE NoneTrilist

\* C10: the dense reference frame is built from the shape instance with
\* the triangulation of the template landmarks (the 'source' landmarks of
\* the mean of the level's appearance model) when those are exactly a
\* TriMesh, and with trilist = None when they are not, whatever the shape
\* instance is; neither path raises.
C10_TrilistOfTemplateLandmarks ==
    (aam.variant = "AAM" /\ last.op # "none" /\ last.out.stage = "returned") =>
        /\ last.out.result.mask.frame.builder = "build_reference_frame"
        /\ last.out.result.mask.frame.shape =
               PCAInstance(LastSM, last.out.shape_weights)
        /\ last.out.result.mask.frame.trilist =
               IF SourceLandmarks(PCAMean(LastAM)).type = "TriMesh"
               THEN SourceLandmarks(PCAMean(LastAM)).trilist
               ELSE NoneTrilist

C10_Witness ==
    /\ aam.variant = "AAM"
    /\ last.op = "instance"
    /\ last.out.stage = "returned"
    /\ last.out.result.mask.frame.shape.points.type = "TriMesh"
    /\ SourceLandmarks(PCAMean(LastAM)).type = "PointCloud"
    /\ last.out.result.mask.frame.trilist = NoneTrilist

\* the calls of `fn` the most recent call's _instance made
CallsOf(fn) ==
    { i \in 1..Len(last.out.result.calls) : last.out.result.calls[i].fn = fn }

\* the reference frame and the template landmarks of the most recent call
LastFrame == _build_reference_frame(aam, PCAInstance(LastSM, last.out.shape_weights),
                                    SourceLandmarks(PCAMean(LastAM)))
LastTemplateLandmarks == SourceLandmarks(PCAMean(LastAM))

\* the appearance instance is resampled once, unmasked without a copy,
\* through the one transform into the reference frame's mask, landmark
\* warping enabled
ResampledOnce ==
    /\ Cardinality(CallsOf("transform")) = 1
    /\ Cardinality(CallsOf("warp_to_mask")) = 1
    /\ \A i \in CallsOf("transform") : \A j \in CallsOf("warp_to_mask") :
           /\ i < j
           /\ last.out.result.calls[j].args =
                  <<FrameMask(LastFrame), last.out.result.transform, TRUE>>
           /\ last.out.result.transform.class = aam.transform
           /\ last.out.result.transform.first = last.out.result.calls[i].args[1]
           /\ last.out.result.transform.second = last.out.result.calls[i].args[2]
    /\ last.out.result.image = PCAInstance(LastAM, last.out.appearance_weights)
    /\ last.out.result.unmasked
    /\ last.out.result.mask = FrameMask(LastFrame)
    /\ last.out.result.warp_landmarks

\* C11 as claimed: in every synthesis the transform constructor is invoked
\* exactly once, with the template landmarks as its first argument and the
\* reference frame's 'source' landmarks as its second, and the appearance
\* instance is resampled once through it into the frame's mask with
\* landmark warping enabled.
C11_TemplateLandmarksFirst ==
    (last.op # "none" /\ last.out.stage = "returned") =>
        /\ ResampledOnce
        /\ \A i \in CallsOf("transform") :
               last.out.result.calls[i].args =
                   <<LastTemplateLandmarks, FrameLandmarks(LastFrame)>>

\* C11: in every synthesis the transform constructor is invoked exactly
\* once, with the reference frame's 'source' landmarks as its first
\* argument and the template landmarks as its second, and the appearance
\* instance is resampled once through it into the frame's mask with
\* landmark warping enabled.
C11_FrameLandmarksFirst ==
    (last.op # "none" /\ last.out.stage = "returned") =>
        /\ ResampledOnce
        /\ \A i \in CallsOf("transform") :
               last.out.result.calls[i].args =
                   <<FrameLandmarks(LastFrame), LastTemplateLandmarks>>

C11_Witness ==
    /\ last.op = "instance"
    /\ last.out.stage = "returned"
    /\ last.shape_weights # None
    /\ Len(last.out.shape_weights) > 0
    /\ last.out.result.transform.first = FrameLandmarks(LastFrame)
    /\ last.out.result.transform.second = LastTemplateLandmarks
    /\ last.out.result.transform.first # last.out.result.transform.second

\* the caller's object o was passed to the most recent call for a weight
\* parameter, and is an ndarray
ArrayPassedAsShape(o) ==
    last.shape_weights = o /\ last.heap0[o].kind = "ndarray"
ArrayPassedAsAppearance(o) ==
    last.appearance_weights = o /\ last.heap0[o].kind = "ndarray"

\* the caller's objects the most recent call was free to leave alone: the
\* lists and the objects not passed to it
LeftAlone ==
    \A o \in Objs :
        (~ArrayPassedAsShape(o) /\ ~ArrayPassedAsAppearance(o)) =>
            heap[o] = last.heap0[o]

\* p[i] = w[i] * sqrt(ev1[i]) * sqrt(ev2[i]) for every i of w
IsScaledTwice(p, w, ev1, ev2) ==
    /\ Len(p) = Len(w)
    /\ Len(w) <= Len(ev1) /\ Len(w) <= Len(ev2)
    /\ \A i \in 1..Len(w) :
           p[i] * p[i] = w[i] * w[i] * ev1[i] * ev2[i] /\ p[i] * w[i] >= 0

\* C12 as claimed: when instance returns, an ndarray of length k passed
\* for shape_weights (or appearance_weights) holds w[i] *
\* sqrt(eigenvalues[i]) of that parameter's model; an omitted argument or
\* a list leaves every caller-owned object as it was.
C12_ArrayHoldsScaled ==
    (last.op = "instance" /\ last.out.stage = "returned") =>
        /\ \A o \in Objs :
               /\ ArrayPassedAsShape(o) =>
                      IsScaled(heap[o].data, Supplied(o), LastSM.eigenvalues)
               /\ ArrayPassedAsAppearance(o) =>
                      IsScaled(heap[o].data, Supplied(o), LastAM.eigenvalues)
        /\ LeftAlone

\* Where C12 fails (not a claim): when instance returns, an ndarray of
\* length k passed for one of the weight parameters holds w[i] * sqrt(eigenvalues[i]) of that
\* parameter's model, and an ndarray passed for both holds w[i] *
\* sqrt(shape eigenvalues[i]) * sqrt(appearance eigenvalues[i]); whatever
\* the outcome of a call, the lists and the objects not passed to it are
\* as they were.
ScaledOncePerParameter ==
    /\ (last.op = "instance" /\ last.out.stage = "returned") =>
           \A o \in Objs :
               /\ (ArrayPassedAsShape(o) /\ ~ArrayPassedAsAppearance(o)) =>
                      IsScaled(heap[o].data, Supplied(o), LastSM.eigenvalues)
               /\ (ArrayPassedAsAppearance(o) /\ ~ArrayPassedAsShape(o)) =>
                      IsScaled(heap[o].data, Supplied(o), LastAM.eigenvalues)
               /\ (ArrayPassedAsShape(o) /\ ArrayPassedAsAppearance(o)) =>
                      IsScaledTwice(heap[o].data, Supplied(o),
                                    LastSM.eigenvalues, LastAM.eigenvalues)
    /\ last.op # "none" => LeftAlone

C12_Witness ==
    /\ last.op = "instance"
    /\ last.out.stage = "returned"
    /\ ArrayPassedAsShape("o1")
    /\ last.appearance_weights = "o2"
    /\ Len(Supplied("o1")) > 0
    /\ heap["o1"] # last.heap0["o1"]
    /\ heap["o2"] = last.heap0["o2"]

(***************************************************************************)
(* Two calls in progress at once.  A thread runs instance statement by     *)
(* statement: the in-place product of line 119 or 122 is one step (one     *)
(* numpy call), and sm.instance / am.instance read the array in a later    *)
(* step.  random_instance reads nothing a caller can write, so it is one   *)
(* step.  Each thread makes one call; last.heap0 keeps the contents of the *)
(* caller's objects from before both.                                      *)
(***************************************************************************)

Threads == {"t1", "t2"}

NoBinding == Fresh("", <<>>)
NoModel == [kind |-> "", level |-> 0, n_active_components |-> 0,
            eigenvalues |-> <<>>, points |-> PointSet("", "", 0)]

Idle ==
    [pc |-> "idle", op |-> "none", level |-> 0, shape_weights |-> None,
     appearance_weights |-> None, shape_draw |-> <<>>, appearance_draw |-> <<>>,
     sm |-> NoModel, am |-> NoModel, sw |-> NoBinding, aw |-> NoBinding,
     passed |-> NoWeights,
     out |-> Outcome("none", [o \in Objs |-> [kind |-> "", data |-> <<>>]],
                     NoWeights, NoWeights, NoResult)]

\* the models of the interleaved runs: one class, every level count
ConcurrentModels ==
    { m \in Models : m.variant = "AAM"
                     /\ \A l \in 1..Len(m.shape_models) :
                            /\ m.shape_models[l].points.type = "TriMesh"
                            /\ m.appearance_models[l].points.type = "TriMesh" }

InitConcurrent ==
    /\ aam \in ConcurrentModels
    /\ aam0 = aam
    /\ heap \in Heaps
    /\ last = [NoCall EXCEPT !.heap0 = heap]
    /\ threads = [t \in Threads |-> Idle]

\* thread t ends its call with `out`
Finish(t, out) ==
    threads' = [threads EXCEPT ![t].pc = "done", ![t].out = out]

\* lines 110-117: thread t enters instance and binds its locals
ThreadCallInstance(t) ==
    /\ threads[t].pc = "idle"
    /\ \E sw \in WeightArgs, aw \in WeightArgs, level \in LevelArgs(aam) :
        \E call \in {[Idle EXCEPT !.op = "instance", !.level = level,
                                  !.shape_weights = sw,
                                  !.appearance_weights = aw]} :
            IF ~ValidIndex(aam.shape_models, level)
               \/ ~ValidIndex(aam.appearance_models, level)
            THEN threads' = [threads EXCEPT ![t] =
                     [call EXCEPT !.pc = "done",
                                  !.out = instance(aam, heap, sw, aw, level)]]
            ELSE threads' = [threads EXCEPT ![t] =
                     [call EXCEPT !.pc = "shape_weights *=",
                                  !.sm = GetItem(aam.shape_models, level),
                                  !.am = GetItem(aam.appearance_models, level),
                                  !.sw = DefaultWeights(sw),
                                  !.aw = DefaultWeights(aw)]]
    /\ UNCHANGED <<aam, aam0, heap, last>>

\* lines 118-119 of thread t
ThreadScaleShape(t) ==
    /\ threads[t].pc = "shape_weights *="
    /\ \E mul \in {InplaceMultiply(threads[t].sw,
                       ScaleFactor(threads[t].sm,
                                   Len(Deref(threads[t].sw, heap).data)), heap)} :
        /\ ~mul.raised => Bounded(mul.heap)
        /\ IF mul.raised
           THEN /\ Finish(t, Outcome("shape_weights *=", heap, NoWeights,
                                     NoWeights, NoResult))
                /\ heap' = heap
           ELSE /\ threads' = [threads EXCEPT ![t].pc = "sm.instance",
                                              ![t].sw = mul.v]
                /\ heap' = mul.heap
    /\ UNCHANGED <<aam, aam0, last>>

\* line 120 of thread t: sm.instance reads the array as it is now
ThreadShapeInstance(t) ==
    /\ threads[t].pc = "sm.instance"
    /\ \E sw \in {Deref(threads[t].sw, heap).data} :
        IF ~PCAAccepts(threads[t].sm, sw)
        THEN Finish(t, Outcome("sm.instance", heap, sw, NoWeights, NoResult))
        ELSE threads' = [threads EXCEPT ![t].pc = "appearance_weights *=",
                                        ![t].passed = sw]
    /\ UNCHANGED <<aam, aam0, heap, last>>

\* lines 121-122 of thread t
ThreadScaleAppearance(t) ==
    /\ threads[t].pc = "appearance_weights *="
    /\ \E mul \in {InplaceMultiply(threads[t].aw,
                       ScaleFactor(threads[t].am,
                                   Len(Deref(threads[t].aw, heap).data)), heap)} :
        /\ ~mul.raised => Bounded(mul.heap)
        /\ IF mul.raised
           THEN /\ Finish(t, Outcome("appearance_weights *=", heap,
                                     threads[t].passed, NoWeights, NoResult))
                /\ heap' = heap
           ELSE /\ threads' = [threads EXCEPT ![t].pc = "am.instance",
                                              ![t].aw = mul.v]
                /\ heap' = mul.heap
    /\ UNCHANGED <<aam, aam0, last>>

\* lines 123-125 of thread t: am.instance reads the array as it is now
ThreadReturn(t) ==
    /\ threads[t].pc = "am.instance"
    /\ Finish(t, instance_return(aam, threads[t].sm, threads[t].am,
                                 threads[t].level, threads[t].passed,
                                 Deref(threads[t].aw, heap).data, heap))
    /\ UNCHANGED <<aam, aam0, heap, last>>

\* thread t calls random_instance
ThreadRandomInstance(t) ==
    /\ threads[t].pc = "idle"
    /\ \E level \in LevelArgs(aam) :
        \E sd \in Draws(DrawCount(aam.shape_models, level)),
           ad \in Draws(DrawCount(aam.appearance_models, level)) :
            threads' = [threads EXCEPT ![t] =
                [Idle EXCEPT !.pc = "done", !.op = "random_instance",
                             !.level = level, !.shape_draw = sd,
                             !.appearance_draw = ad,
                             !.out = random_instance(aam, heap, sd, ad, level)]]
    /\ UNCHANGED <<aam, aam0, heap, last>>

NextConcurrent ==
    \E t \in Threads :
        \/ ThreadCallInstance(t)
        \/ ThreadScaleShape(t)
        \/ ThreadShapeInstance(t)
        \/ ThreadScaleAppearance(t)
        \/ ThreadReturn(t)
        \/ ThreadRandomInstance(t)

SpecConcurrent == InitConcurrent /\ [][NextConcurrent]_vars

\* the call of thread t run on its own from heap h
Alone(t, h) ==
    IF threads[t].op = "instance"
    THEN instance(aam, h, threads[t].shape_weights,
                  threads[t].appearance_weights, threads[t].level)
    ELSE random_instance(aam, h, threads[t].shape_draw,
                         threads[t].appearance_draw, threads[t].level)

\* what thread t handed on and returned is what `out` says
SameReturn(t, out) ==
    /\ threads[t].out.stage = out.stage
    /\ threads[t].out.shape_weights = out.shape_weights
    /\ threads[t].out.appearance_weights = out.appearance_weights
    /\ threads[t].out.result = out.result

\* the two calls ended as they do when `first` runs to its end before the
\* other begins
AsInOrder(first, second) ==
    /\ SameReturn(first, Alone(first, last.heap0))
    /\ SameReturn(second, Alone(second, Alone(first, last.heap0).heap))

\* a thread whose call ran with no step of the other thread in between
\* ends as instance / random_instance say (not a claim: it ties the steps
\* to the operators above)
StepsAreTheCall ==
    \A t \in Threads :
        (threads[t].pc = "done" /\ \A u \in Threads \ {t} : threads[u].pc = "idle")
            => /\ SameReturn(t, Alone(t, last.heap0))
               /\ heap = Alone(t, last.heap0).heap

\* C8: two calls interleaved in any order against one model: each returns
\* what it returns when run alone, and neither sees a value the other
\* wrote.  Stated in its weakest form: the two calls end as in one of the
\* two orders in which one runs before the other.
C8_InterleavedAsAlone ==
    (\A t \in Threads : threads[t].pc = "done") =>
        \/ AsInOrder("t1", "t2")
        \/ AsInOrder("t2", "t1")

====
